---- MODULE Spec2Model ----
(***************************************************************************)
(* NewslyBot (man.py): a Streamlit script that is re-run once per user     *)
(* input.  Each re-run reads the text input, stops on an exit keyword, and *)
(* otherwise hands the input to chatbot_response, which routes it to the   *)
(* Tavily search API, to the Gemini chat session, or to both, and keeps    *)
(* three dictionaries/lists in st.session_state.  The chat session is      *)
(* rebuilt from conversation_memory at every re-run and holds no state of  *)
(* its own between re-runs; what the two providers answer is chosen        *)
(* nondeterministically.                                                   *)
(*                                                                         *)
(* Python strings are modelled as sequences of characters (one-character   *)
(* TLA+ strings; an emoji is one character written by its code point), so  *)
(* that lower(), substring tests and concatenation are computed.           *)
(***************************************************************************)
EXTENDS Integers, Sequences, FiniteSets, TLC

VARIABLES
  conversation_memory,     \* st.session_state.conversation_memory
  user_memory,             \* st.session_state.user_memory
  tavily_response_memory,  \* st.session_state.tavily_response_memory
  user_input,              \* value of st.text_input in the latest re-run
  invoked,                 \* chatbot_response was called in the latest re-run
  calls,                   \* outbound network calls of the latest re-run, in order
  result,                  \* how chatbot_response ended in the latest re-run
  written,                 \* st.write outputs of the latest re-run after the input
  replays,                 \* instructions sent so far that list the stored hits
  turns                    \* number of re-runs so far

vars == <<conversation_memory, user_memory, tavily_response_memory, user_input,
          invoked, calls, result, written, replays, turns>>

----------------------------------------------------------------------------
(* Bounds of the model *)

MaxTurns == 3

MaxHits == 6

----------------------------------------------------------------------------
(* String literals of the program *)

SUMMARIZE_HEADER ==
  <<"S","u","m","m","a","r","i","z","e"," ","t","h","e"," ","f","o","l","l","o","w","i",
    "n","g"," ","a","r","t","i","c","l","e","s",":","\n">>

TITLE_PREFIX ==
  <<"T","i","t","l","e",":"," ">>

LINK_PREFIX ==
  <<","," ","L","i","n","k",":"," ">>

NEWLINE ==
  <<"\n">>

NO_TITLE ==
  <<"N","o"," ","T","i","t","l","e">>

NO_URL ==
  <<"N","o"," ","U","R","L">>

NO_RESULTS_MSG ==
  <<"U+274C"," ","N","o"," ","s","e","a","r","c","h"," ","r","e","s","u","l","t","s"," ",
    "f","o","u","n","d"," ","f","r","o","m"," ","T","a","v","i","l","y",".">>

GENERIC_FAILURE_MSG ==
  <<"A","n"," ","e","r","r","o","r"," ","o","c","c","u","r","r","e","d"," ","w","h","i",
    "l","e"," ","g","e","n","e","r","a","t","i","n","g"," ","a"," ","r","e","s","p","o",
    "n","s","e","."," ","P","l","e","a","s","e"," ","t","r","y"," ","a","g","a","i","n",
    " ","l","a","t","e","r",".">>

TAVILY_SORRY_PREFIX ==
  <<"S","o","r","r","y",","," ","I"," ","c","o","u","l","d","n","'","t"," ","f","e","t",
    "c","h"," ","i","n","f","o","r","m","a","t","i","o","n"," ","f","r","o","m"," ","T",
    "a","v","i","l","y"," ","f","o","r"," ","'">>

TAVILY_SORRY_SUFFIX ==
  <<"'",".">>

TAVILY_ERROR_MSG ==
  <<"A","n"," ","e","r","r","o","r"," ","o","c","c","u","r","r","e","d"," ","w","h","i",
    "l","e"," ","c","a","l","l","i","n","g"," ","t","h","e"," ","T","a","v","i","l","y",
    " ","A","P","I",".">>

GOODBYE_MSG ==
  <<"E","x","i","t","i","n","g"," ","c","h","a","t","."," ","G","o","o","d","b","y","e",
    "!"," ","U+1F44B">>

CHATBOT_PREFIX ==
  <<"U+1F916"," ","C","h","a","t","B","o","t",":"," ">>

KW_SEARCH ==
  <<"s","e","a","r","c","h">>

KW_FIND ==
  <<"f","i","n","d">>

KW_SUMMARIZE ==
  <<"s","u","m","m","a","r","i","z","e">>

KW_Q ==
  <<"q">>

KW_EXIT ==
  <<"e","x","i","t">>

KW_QUIT ==
  <<"q","u","i","t">>

EXIT_KEYWORDS == {KW_Q, KW_EXIT, KW_QUIT}

DEFAULT_USER_ID == "user_1"

SLICE_END == 5

HTTP_OK == 200

----------------------------------------------------------------------------
(* Python string operations *)

UPPERCASE ==
  <<"A","B","C","D","E","F","G","H","I","J","K","L","M",
    "N","O","P","Q","R","S","T","U","V","W","X","Y","Z">>

LOWERCASE ==
  <<"a","b","c","d","e","f","g","h","i","j","k","l","m",
    "n","o","p","q","r","s","t","u","v","w","x","y","z">>

\* the lowercase letter of each uppercase letter
LowerOf ==
  [c \in {UPPERCASE[i] : i \in 1..Len(UPPERCASE)} |->
     LOWERCASE[CHOOSE i \in 1..Len(UPPERCASE) : UPPERCASE[i] = c]]

\* str.lower() on one character
LowerChar(c) == IF c \in DOMAIN LowerOf THEN LowerOf[c] ELSE c

\* str.lower()
Lower(s) == [i \in 1..Len(s) |-> LowerChar(s[i])]

\* the Python test  sub in s  on strings
Contains(sub, s) ==
  \E i \in 1..(Len(s) - Len(sub) + 1) : SubSeq(s, i, i + Len(sub) - 1) = sub

----------------------------------------------------------------------------
(* Python values held in memory: a list, a str, a dict or None.  Every     *)
(* value carries all three payload fields so that values of different      *)
(* Python types can be stored side by side.                                *)

PyNone == [t |-> "none", s |-> <<>>, l |-> <<>>]

PyStr(s) == [t |-> "str", s |-> s, l |-> <<>>]

PyList(l) == [t |-> "list", s |-> <<>>, l |-> l]

\* a list element that is a JSON object (a Search Hit): keys is the set of
\* fields it has among title and url
PyDict(keys, title, url) ==
  [t |-> "dict", s |-> <<>>, keys |-> keys, title |-> title, url |-> url]

\* a list element (or a character of a str being iterated) that is a str
PyStrItem(s) == [t |-> "str", s |-> s, keys |-> {}, title |-> <<>>, url |-> <<>>]

\* variant: the test  v is not None
Truthy_isNotNone(v) == v.t # "none"

\* bool(v) as used by  if v:
Truthy(v) ==
  CASE v.t = "none" -> FALSE
    [] v.t = "str"  -> Len(v.s) > 0
    [] v.t = "list" -> Len(v.l) > 0
    [] OTHER        -> TRUE

----------------------------------------------------------------------------
(* Session memory helpers *)

\* update_memory(user_id, key, value), as the new value of user_memory
update_memory(um, user_id, key, value) ==
  LET um1 == IF user_id \in DOMAIN um THEN um ELSE (user_id :> <<>>) @@ um
  IN  [um1 EXCEPT ![user_id] = (key :> value) @@ @]

\* get_user_memory(user_id, key)
get_user_memory(um, user_id, key) ==
  IF user_id \in DOMAIN um /\ key \in DOMAIN um[user_id]
    THEN um[user_id][key]
    ELSE PyNone

----------------------------------------------------------------------------
(* The two providers, as seen by the program.  A Tavily outcome is what    *)
(* requests.get and response.json() do; a Gemini outcome is what           *)
(* chat_session.send_message and response.text do.                         *)

TavilyOutcome(exc, status, json_ok, is_obj, has_results, results) ==
  [exc |-> exc, status |-> status, json_ok |-> json_ok, is_obj |-> is_obj,
   has_results |-> has_results, results |-> results]

GeminiOutcome(kind, text) == [kind |-> kind, text |-> text]

\* placeholders in the call log for the provider that was not the one called
NoTavily == TavilyOutcome(TRUE, 0, FALSE, FALSE, FALSE, PyNone)

NoGemini == GeminiOutcome("none", <<>>)

\* fetch_from_tavily(query) under Tavily outcome o
fetch_from_tavily(query, o) ==
  IF o.exc THEN PyStr(TAVILY_ERROR_MSG)
  ELSE IF o.status = HTTP_OK
    THEN IF ~o.json_ok \/ ~o.is_obj THEN PyStr(TAVILY_ERROR_MSG)
         ELSE IF o.has_results THEN o.results ELSE PyList(<<>>)
    ELSE PyStr(TAVILY_SORRY_PREFIX \o query \o TAVILY_SORRY_SUFFIX)

----------------------------------------------------------------------------
(* chatbot_response.  Its local state while it runs is a frame: the three  *)
(* session structures, the outbound calls made so far, and how it ended    *)
(* ("none" while still running, "return" with a value, or "raise").        *)

Frame(um, trm, cm) ==
  [um |-> um, trm |-> trm, cm |-> cm, calls |-> <<>>,
   ret |-> [kind |-> "none", val |-> <<>>]]

Return(val) == [kind |-> "return", val |-> val]

Raise == [kind |-> "raise", val |-> <<>>]

\* one entry of the call log: src tells what the request was built from
TavilyCall(query, tav) ==
  [api |-> "tavily", req |-> query, src |-> "input", tav |-> tav, gem |-> NoGemini]

GeminiCall(msg, src, gem) ==
  [api |-> "gemini", req |-> msg, src |-> src, tav |-> NoTavily, gem |-> gem]

\* "search" in user_input.lower() or "find" in user_input.lower()
IsSearchRequest(inp) ==
  Contains(KW_SEARCH, Lower(inp)) \/ Contains(KW_FIND, Lower(inp))

\* "summarize" in user_input.lower()
IsSummarizeRequest(inp) == Contains(KW_SUMMARIZE, Lower(inp))

\* variant: the length test left out
HasResults_anyList(v) == v.t = "list"

\* isinstance(tavily_response, list) and len(tavily_response) > 0
HasResults(v) == v.t = "list" /\ Len(v.l) > 0

\* variant: the slice left out
FirstFive_noSlice(seq) == seq

\* seq[:5]
FirstFive(seq) ==
  SubSeq(seq, 1, IF Len(seq) < SLICE_END THEN Len(seq) ELSE SLICE_END)

\* the elements visited by  for article in v[:5]  (a str yields its characters)
Articles(v) ==
  CASE v.t = "list" -> FirstFive(v.l)
    [] v.t = "str"  -> LET cs == FirstFive(v.s)
                       IN  [i \in 1..Len(cs) |-> PyStrItem(<<cs[i]>>)]
    [] OTHER        -> <<>>

\* article.get(key, default) for key "title" or "url"
DictGet(article, key, default) ==
  IF key \in article.keys
    THEN (IF key = "title" THEN article.title ELSE article.url)
    ELSE default

\* f"Title: {article.get('title', 'No Title')}, Link: {article.get('url', 'No URL')}\n"
FormatArticle(article) ==
  TITLE_PREFIX \o DictGet(article, "title", NO_TITLE)
    \o LINK_PREFIX \o DictGet(article, "url", NO_URL) \o NEWLINE

RECURSIVE AppendArticles(_, _)
AppendArticles(message_to_gemini, articles) ==
  IF articles = <<>> THEN message_to_gemini
  ELSE AppendArticles(message_to_gemini \o FormatArticle(Head(articles)),
                      Tail(articles))

\* variant: a failed send is tried a second time
SendAndReturnText_retry(f, msg, src, gem) ==
  LET f1 == [f EXCEPT !.calls = Append(@, GeminiCall(msg, src, gem))]
  IN  IF gem.kind = "ok" THEN [f1 EXCEPT !.ret = Return(gem.text)]
      ELSE [f1 EXCEPT !.calls = Append(@, GeminiCall(msg, src, gem)),
                      !.ret = Raise]

\* variant: a successful exchange is appended to conversation_memory
SendAndReturnText_recordsTurns(f, msg, src, gem) ==
  LET f1 == [f EXCEPT !.calls = Append(@, GeminiCall(msg, src, gem))]
  IN  IF gem.kind = "ok"
        THEN [f1 EXCEPT !.cm = @ \o << [role |-> "user", content |-> msg],
                                      [role |-> "assistant", content |-> gem.text] >>,
                        !.ret = Return(gem.text)]
        ELSE [f1 EXCEPT !.ret = Raise]

\* chat_session.send_message(msg) followed by reading response.text
SendAndReturnText(f, msg, src, gem) ==
  LET f1 == [f EXCEPT !.calls = Append(@, GeminiCall(msg, src, gem))]
  IN  IF gem.kind = "ok" THEN [f1 EXCEPT !.ret = Return(gem.text)]
      ELSE [f1 EXCEPT !.ret = Raise]

\* the block shared by the search and the summarize branch: build the
\* instruction from v[:5], send it, return the reply.  article.get raises
\* AttributeError on an element that is not a dict, before anything is sent.
SummarizeArticles(f, v, gem) ==
  LET articles == Articles(v)
  IN  IF v.t \notin {"list", "str"}
           \/ \E i \in 1..Len(articles) : articles[i].t # "dict"
        THEN [f EXCEPT !.ret = Raise]
        ELSE SendAndReturnText(f, AppendArticles(SUMMARIZE_HEADER, articles),
                               "hits", gem)

\* the branch  if "search" in ... or "find" in ...
SearchBranch(f, inp, user_id, tav, gem) ==
  LET tavily_response == fetch_from_tavily(inp, tav)
      f1 == [f EXCEPT
               !.calls = Append(@, TavilyCall(inp, tav)),
               !.um = update_memory(@, user_id, "last_tavily_response",
                                    tavily_response),
               !.trm = (user_id :> tavily_response) @@ @]
  IN  IF HasResults(tavily_response)
        THEN SummarizeArticles(f1, tavily_response, gem)
        ELSE [f1 EXCEPT !.ret = Return(NO_RESULTS_MSG)]

\* the branch  if "summarize" in ...  (no return when nothing is stored)
SummarizeBranch(f, user_id, gem) ==
  LET last_tavily_response ==
        IF user_id \in DOMAIN f.trm THEN f.trm[user_id] ELSE PyNone
  IN  IF Truthy(last_tavily_response)
        THEN SummarizeArticles(f, last_tavily_response, gem)
        ELSE f

\* variant: the two appends in the other order
AppendTurns_assistantFirst(cm, inp, text) ==
  cm \o << [role |-> "assistant", content |-> text],
           [role |-> "user", content |-> inp] >>

\* the two appends to conversation_memory
AppendTurns(cm, inp, text) ==
  cm \o << [role |-> "user", content |-> inp],
           [role |-> "assistant", content |-> text] >>

\* the general-query path
GeneralBranch(f, inp, user_id, gem) ==
  LET f1 == [f EXCEPT !.calls = Append(@, GeminiCall(inp, "input", gem))]
      f2 == [f1 EXCEPT !.um = update_memory(@, user_id, "last_user_input",
                                            PyStr(inp))]
  IN  CASE gem.kind = "send_raises" -> [f1 EXCEPT !.ret = Raise]
        [] gem.kind = "text_raises" -> [f2 EXCEPT !.ret = Raise]
        [] OTHER ->
             [f2 EXCEPT
                !.um = update_memory(@, user_id, "last_gemini_response",
                                     PyStr(gem.text)),
                !.cm = AppendTurns(@, inp, gem.text),
                !.ret = Return(gem.text)]

\* variant: the return statements of the branches left out
Left_onlyByException(f) == f.ret.kind = "raise"

\* the function has left (by return or by an exception) at this point
Left(f) == f.ret.kind # "none"

\* variant: no except clause
Catch_reraise(f) == f

\* except Exception as e: return "An error occurred ..."
Catch(f) ==
  IF f.ret.kind = "raise" THEN [f EXCEPT !.ret = Return(GENERIC_FAILURE_MSG)]
  ELSE f

chatbot_response(f, inp, user_id, tav, gem) ==
  LET s1 == IF IsSearchRequest(inp)
              THEN SearchBranch(f, inp, user_id, tav, gem) ELSE f
      s2 == IF ~Left(s1) /\ IsSummarizeRequest(inp)
              THEN SummarizeBranch(s1, user_id, gem) ELSE s1
      s3 == IF ~Left(s2) THEN GeneralBranch(s2, inp, user_id, gem) ELSE s2
  IN  Catch(s3)

----------------------------------------------------------------------------
(* The UI shell: one re-run of the script per submitted input *)

\* variant: the comparison without lower()
IsExit_caseSensitive(inp) == inp \in EXIT_KEYWORDS

\* user_input.lower() in ["q", "exit", "quit"]
IsExit(inp) == Lower(inp) \in EXIT_KEYWORDS

\* number of calls of the log that sent an instruction listing stored hits
RECURSIVE HitInstructions(_)
HitInstructions(log) ==
  IF log = <<>> THEN 0
  ELSE (IF Head(log).api = "gemini" /\ Head(log).src = "hits" THEN 1 ELSE 0)
         + HitInstructions(Tail(log))

Rerun(inp, tav, gem) ==
  /\ turns < MaxTurns
  /\ turns' = turns + 1
  /\ user_input' = inp
  /\ IF IsExit(inp)
       THEN /\ written' = <<GOODBYE_MSG>>
            /\ invoked' = FALSE
            /\ calls' = <<>>
            /\ result' = [kind |-> "none", val |-> <<>>]
            /\ UNCHANGED <<conversation_memory, user_memory,
                           tavily_response_memory, replays>>
       ELSE IF Len(inp) > 0
         THEN LET r == chatbot_response(
                         Frame(user_memory, tavily_response_memory,
                               conversation_memory),
                         inp, DEFAULT_USER_ID, tav, gem)
              IN  /\ invoked' = TRUE
                  /\ calls' = r.calls
                  /\ result' = r.ret
                  /\ user_memory' = r.um
                  /\ tavily_response_memory' = r.trm
                  /\ conversation_memory' = r.cm
                  /\ written' = IF r.ret.kind = "return"
                                  THEN <<CHATBOT_PREFIX \o r.ret.val>>
                                  ELSE <<>>
                  /\ replays' = HitInstructions(r.calls)
                       + (IF IsSearchRequest(inp) THEN 0 ELSE replays)
         ELSE /\ written' = <<>>
              /\ invoked' = FALSE
              /\ calls' = <<>>
              /\ result' = [kind |-> "none", val |-> <<>>]
              /\ UNCHANGED <<conversation_memory, user_memory,
                             tavily_response_memory, replays>>

----------------------------------------------------------------------------
(* The inputs and provider outcomes explored *)

IN_SEARCH ==
  <<"s","e","a","r","c","h"," ","a","i">>

IN_SUMMARIZE ==
  <<"s","u","m","m","a","r","i","z","e"," ","i","t">>

IN_SUMMARIZE_UP ==
  <<"S","U","M","M","A","R","I","Z","E">>

IN_FIND_SUMMARIZE ==
  <<"F","i","n","d"," ","&"," ","s","u","m","m","a","r","i","z","e">>

IN_HELLO ==
  <<"h","i">>

IN_Q_UP ==
  <<"Q">>

IN_EXIT ==
  <<"e","x","i","t">>

IN_QUIT_UP ==
  <<"Q","U","I","T">>

IN_EMPTY ==
  <<>>

UserInputs ==
  {IN_SEARCH, IN_FIND_SUMMARIZE, IN_SUMMARIZE, IN_SUMMARIZE_UP, IN_HELLO,
   IN_Q_UP, IN_EXIT, IN_QUIT_UP, IN_EMPTY}

HIT_A == PyDict({"title", "url"}, <<"A">>, <<"u","1">>)

HIT_B == PyDict({"title", "url"}, <<"B">>, <<"u","2">>)

HIT_BARE == PyDict({}, <<>>, <<>>)

HitPool == <<HIT_A, HIT_B, HIT_BARE>>

\* n hits taken from the pool in rotation
HitList(n) == [i \in 1..n |-> HitPool[((i - 1) % Len(HitPool)) + 1]]

HitLists == {HitList(n) : n \in 0..MaxHits}

TavilyOutcomes ==
  { TavilyOutcome(TRUE, 0, FALSE, FALSE, FALSE, PyNone),          \* transport error
    TavilyOutcome(FALSE, 500, FALSE, FALSE, FALSE, PyNone),       \* HTTP 500
    TavilyOutcome(FALSE, HTTP_OK, FALSE, FALSE, FALSE, PyNone),   \* body is not JSON
    TavilyOutcome(FALSE, HTTP_OK, TRUE, FALSE, FALSE, PyNone),    \* JSON, not an object
    TavilyOutcome(FALSE, HTTP_OK, TRUE, TRUE, FALSE, PyNone),     \* no "results" field
    TavilyOutcome(FALSE, HTTP_OK, TRUE, TRUE, TRUE, PyNone),      \* "results": null
    TavilyOutcome(FALSE, HTTP_OK, TRUE, TRUE, TRUE,
                  PyList(<<HIT_A, PyStrItem(<<"x">>)>>)) }        \* an element is no object
  \cup { TavilyOutcome(FALSE, HTTP_OK, TRUE, TRUE, TRUE, PyList(l)) : l \in HitLists }

GeminiTexts == { <<"o","k">>, <<"n","o">> }

GeminiOutcomes ==
  { GeminiOutcome("send_raises", <<>>), GeminiOutcome("text_raises", <<>>) }
  \cup { GeminiOutcome("ok", t) : t \in GeminiTexts }

----------------------------------------------------------------------------

Init ==
  /\ conversation_memory = <<>>
  /\ user_memory = <<>>
  /\ tavily_response_memory = <<>>
  /\ user_input = <<>>
  /\ invoked = FALSE
  /\ calls = <<>>
  /\ result = [kind |-> "none", val |-> <<>>]
  /\ written = <<>>
  /\ replays = 0
  /\ turns = 0

\* the outbound calls a re-run on input inp makes from the current state when
\* Tavily answers tav (and Gemini, if reached, answers)
CallsMade(inp, tav) ==
  IF IsExit(inp) \/ Len(inp) = 0 THEN <<>>
  ELSE chatbot_response(Frame(user_memory, tavily_response_memory,
                              conversation_memory),
                        inp, DEFAULT_USER_ID, tav, GeminiOutcome("ok", <<>>)).calls

CallsApi(log, api) == \E i \in 1..Len(log) : log[i].api = api

\* A provider has an outcome only in a re-run that calls it.
Next ==
  \E inp \in UserInputs :
    \E tav \in (IF CallsApi(CallsMade(inp, NoTavily), "tavily")
                  THEN TavilyOutcomes ELSE {NoTavily}) :
      \E gem \in (IF CallsApi(CallsMade(inp, tav), "gemini")
                    THEN GeminiOutcomes ELSE {NoGemini}) :
        Rerun(inp, tav, gem)

Spec == Init /\ [][Next]_vars

----------------------------------------------------------------------------
(* Vocabulary of the properties, stated without the dispatcher's own       *)
(* operators.                                                              *)

\* inp contains the keyword kw in some letter case
HasKeyword(inp, kw) == Contains(kw, Lower(inp))

\* inp is one of the exit keywords, in any letter case
IsExitWord(inp) ==
  \E k \in EXIT_KEYWORDS :
    /\ Len(inp) = Len(k)
    /\ \A i \in 1..Len(k) :
         \/ inp[i] = k[i]
         \/ \E j \in 1..Len(LOWERCASE) : LOWERCASE[j] = k[i] /\ UPPERCASE[j] = inp[i]

\* an input handled by the summarize branch's test and not by the search branch's
SummarizeOnly(inp) ==
  /\ HasKeyword(inp, KW_SUMMARIZE)
  /\ ~HasKeyword(inp, KW_SEARCH)
  /\ ~HasKeyword(inp, KW_FIND)

\* an input with none of the trigger keywords that is dispatched
PlainQuery(inp) ==
  /\ Len(inp) > 0
  /\ ~IsExitWord(inp)
  /\ ~HasKeyword(inp, KW_SEARCH)
  /\ ~HasKeyword(inp, KW_FIND)
  /\ ~HasKeyword(inp, KW_SUMMARIZE)

\* the Search Hits a Tavily outcome delivers: the "results" list of a 200
\* response whose elements are all objects; no hits otherwise
ReturnedHits(tav) ==
  IF /\ ~tav.exc
     /\ tav.status = HTTP_OK
     /\ tav.json_ok
     /\ tav.is_obj
     /\ tav.has_results
     /\ tav.results.t = "list"
     /\ \A i \in 1..Len(tav.results.l) : tav.results.l[i].t = "dict"
    THEN tav.results.l
    ELSE <<>>

\* a 200 response with an empty (or missing) result list
ZeroHits(tav) ==
  /\ ~tav.exc
  /\ tav.status = HTTP_OK
  /\ tav.json_ok
  /\ tav.is_obj
  /\ (tav.has_results => tav.results.t = "list" /\ tav.results.l = <<>>)

\* a 200 response whose result list has, among its first five elements, one
\* that is no object
MalformedHits(tav) ==
  /\ ~tav.exc
  /\ tav.status = HTTP_OK
  /\ tav.json_ok
  /\ tav.is_obj
  /\ tav.has_results
  /\ tav.results.t = "list"
  /\ \E i \in 1..Len(tav.results.l) : i <= SLICE_END /\ tav.results.l[i].t # "dict"

\* a response with a non-200 status
HttpError(tav) == ~tav.exc /\ tav.status # HTTP_OK

\* the line of the instruction that lists one hit's title and URL
ListedPair(hit) ==
  TITLE_PREFIX
    \o (IF "title" \in hit.keys THEN hit.title ELSE NO_TITLE)
    \o LINK_PREFIX
    \o (IF "url" \in hit.keys THEN hit.url ELSE NO_URL)
    \o NEWLINE

RECURSIVE Concat(_)
Concat(seqs) == IF seqs = <<>> THEN <<>> ELSE Head(seqs) \o Concat(Tail(seqs))

Min(a, b) == IF a < b THEN a ELSE b

\* the instruction that lists exactly the first k of the hits, in order
InstructionListing(hits, k) ==
  SUMMARIZE_HEADER \o Concat([i \in 1..k |-> ListedPair(hits[i])])

\* what is stored for the user in tavily_response_memory (None when absent)
Stored(trm) ==
  IF DEFAULT_USER_ID \in DOMAIN trm THEN trm[DEFAULT_USER_ID] ELSE PyNone

\* a non-empty value is stored for the user
StoredPresent(trm) ==
  \/ Stored(trm).t = "list" /\ Stored(trm).l # <<>>
  \/ Stored(trm).t = "str" /\ Stored(trm).s # <<>>

\* nothing is stored for the user, or an empty sequence
NothingStored(trm) ==
  \/ Stored(trm).t = "none"
  \/ Stored(trm).t = "list" /\ Stored(trm).l = <<>>

UserTurn(content) == [role |-> "user", content |-> content]

AssistantTurn(content) == [role |-> "assistant", content |-> content]

\* the latest re-run made exactly the calls named, in order
CallsAre(apis) ==
  /\ Len(calls) = Len(apis)
  /\ \A i \in 1..Len(apis) : calls[i].api = apis[i]

\* the UI showed reply text as the chatbot's answer
Replied(text) ==
  /\ result = [kind |-> "return", val |-> text]
  /\ written = <<CHATBOT_PREFIX \o text>>

----------------------------------------------------------------------------
(* C1: for an input containing "search" for which the search provider      *)
(* returns N > 0 hits, the instruction sent to the Conversation Client     *)
(* lists exactly the first min(N,5) hits' title/URL pairs in the order     *)
(* received, and the reply is the model's text unmodified.                 *)
C1_SearchListsFirstFive ==
  (turns > 0 /\ Contains(KW_SEARCH, user_input)) =>
    /\ Len(calls) >= 1
    /\ calls[1].api = "tavily"
    /\ calls[1].req = user_input
    /\ LET hits == ReturnedHits(calls[1].tav)
       IN  Len(hits) > 0 =>
             /\ CallsAre(<<"tavily", "gemini">>)
             /\ calls[2].req = InstructionListing(hits, Min(Len(hits), SLICE_END))
             /\ (calls[2].gem.kind = "ok" => Replied(calls[2].gem.text))

C1_Witness ==
  /\ Contains(KW_SEARCH, user_input)
  /\ CallsAre(<<"tavily", "gemini">>)
  /\ Len(ReturnedHits(calls[1].tav)) > SLICE_END
  /\ calls[2].gem.kind = "ok"
  /\ Replied(calls[2].gem.text)

(* C2: for an input containing "search" for which the search provider      *)
(* returns zero hits or a non-200 status, the reply is the fixed           *)
(* "no results" string and the conversation provider is not called.        *)
C2_NoResultsNoModelCall ==
  (turns > 0 /\ Contains(KW_SEARCH, user_input)) =>
    /\ Len(calls) >= 1
    /\ calls[1].api = "tavily"
    /\ (ZeroHits(calls[1].tav) \/ HttpError(calls[1].tav)) =>
         /\ CallsAre(<<"tavily">>)
         /\ Replied(NO_RESULTS_MSG)

C2_Witness ==
  /\ Contains(KW_SEARCH, user_input)
  /\ CallsAre(<<"tavily">>)
  /\ HttpError(calls[1].tav)
  /\ Replied(NO_RESULTS_MSG)

(* C3: on the general-query path, after a successful conversation call,    *)
(* conversation_memory is the previous history followed by a user turn     *)
(* holding the raw input and an assistant turn holding the reply.          *)
C3_GeneralAppendsUserThenAssistant ==
  [][ (PlainQuery(user_input') /\ Len(calls') = 1 /\ calls'[1].gem.kind = "ok") =>
        /\ calls'[1].api = "gemini"
        /\ calls'[1].req = user_input'
        /\ result' = [kind |-> "return", val |-> calls'[1].gem.text]
        /\ conversation_memory' =
             conversation_memory
               \o <<UserTurn(user_input'), AssistantTurn(calls'[1].gem.text)>>
    ]_vars

C3_Witness ==
  /\ PlainQuery(user_input)
  /\ CallsAre(<<"gemini">>)
  /\ calls[1].gem.kind = "ok"
  /\ Len(conversation_memory) = 4
  /\ conversation_memory[3] = UserTurn(user_input)
  /\ conversation_memory[4] = AssistantTurn(result.val)

(* C4: chatbot_response never raises: whenever it is invoked it returns a  *)
(* string, which the UI shows, and a failure inside it (the conversation   *)
(* provider failing, or a result element that is no object) yields the     *)
(* generic failure string.                                                 *)
C4_NeverRaises ==
  invoked =>
    /\ result.kind = "return"
    /\ written = <<CHATBOT_PREFIX \o result.val>>
    /\ (\E i \in 1..Len(calls) : calls[i].api = "gemini" /\ calls[i].gem.kind # "ok")
         => result.val = GENERIC_FAILURE_MSG
    /\ (Len(calls) >= 1 /\ calls[1].api = "tavily" /\ MalformedHits(calls[1].tav))
         => result.val = GENERIC_FAILURE_MSG

C4_Witness ==
  /\ invoked
  /\ CallsAre(<<"tavily", "gemini">>)
  /\ calls[2].gem.kind = "send_raises"
  /\ Replied(GENERIC_FAILURE_MSG)

(* C5: for an input containing "summarize" (and neither "search" nor       *)
(* "find"), whenever a last stored search result is present for the user,  *)
(* whatever the outcome of the last search was, the dispatcher sends the   *)
(* instruction listing up to the first 5 stored hits to the Conversation   *)
(* Client and returns the model's reply.                                   *)
C5_SummarizeReplaysStored ==
  [][ (SummarizeOnly(user_input') /\ StoredPresent(tavily_response_memory)) =>
        /\ Len(calls') = 1
        /\ calls'[1].api = "gemini"
        /\ calls'[1].req =
             InstructionListing(Stored(tavily_response_memory).l,
                                Min(Len(Stored(tavily_response_memory).l), SLICE_END))
        /\ (calls'[1].gem.kind = "ok" =>
              result' = [kind |-> "return", val |-> calls'[1].gem.text])
    ]_vars

(* C6: an input equal to "q", "exit" or "quit" in any letter case never    *)
(* reaches the dispatcher: chatbot_response is not invoked, no provider    *)
(* call is made, the session memory and the conversation history are       *)
(* unchanged, and the only output is the goodbye message.                  *)
C6_ExitSkipsDispatcher ==
  [][ IsExitWord(user_input') =>
        /\ ~invoked'
        /\ calls' = <<>>
        /\ written' = <<GOODBYE_MSG>>
        /\ UNCHANGED <<conversation_memory, user_memory, tavily_response_memory>>
    ]_vars

C6_Witness ==
  /\ user_input = <<"Q","U","I","T">>
  /\ written = <<GOODBYE_MSG>>
  /\ ~invoked
  /\ Len(conversation_memory) > 0
  /\ StoredPresent(tavily_response_memory)

(* C7: in every turn at most one outbound call is made, except that two    *)
(* are made, one search call followed by one conversation call, when a     *)
(* search returns results that are summarized at once; neither provider    *)
(* is called more than once in a turn.                                     *)
C7_AtMostOneCallPerProvider ==
  /\ Cardinality({i \in 1..Len(calls) : calls[i].api = "tavily"}) <= 1
  /\ Cardinality({i \in 1..Len(calls) : calls[i].api = "gemini"}) <= 1
  /\ Len(calls) > 1 =>
       /\ CallsAre(<<"tavily", "gemini">>)
       /\ Len(ReturnedHits(calls[1].tav)) > 0

C7_Witness ==
  /\ CallsAre(<<"tavily", "gemini">>)
  /\ calls[2].gem.kind = "text_raises"

(* C8, as claimed: a Search Hit sequence returned by one search is used    *)
(* for an instruction sent to the Conversation Client at most twice over   *)
(* any sequence of turns.                                                  *)
C8_ConsumedAtMostTwice == replays <= 2

(* C8, amended: the sequence is used at most once per turn, at most once   *)
(* in the search turn that stored it and at most once in each later        *)
(* summarize turn, with no bound on the number of such turns.              *)
C8_ConsumedOncePerTurn ==
  [][ /\ (HasKeyword(user_input', KW_SEARCH) \/ HasKeyword(user_input', KW_FIND))
          => replays' <= 1
      /\ replays' <= replays + 1
      /\ replays' > replays =>
           \/ HasKeyword(user_input', KW_SEARCH) \/ HasKeyword(user_input', KW_FIND)
           \/ SummarizeOnly(user_input')
    ]_vars

C8_Witness ==
  /\ replays = 3
  /\ SummarizeOnly(user_input)
  /\ CallsAre(<<"gemini">>)

(* C9: a turn handled by the search/find branch, or by the summarize       *)
(* branch with stored results present, leaves conversation_memory          *)
(* unchanged, whether the provider call succeeds or fails.                 *)
C9_SearchAndReplayKeepHistory ==
  [][ ( \/ HasKeyword(user_input', KW_SEARCH)
        \/ HasKeyword(user_input', KW_FIND)
        \/ (HasKeyword(user_input', KW_SUMMARIZE)
              /\ StoredPresent(tavily_response_memory)) )
        => (invoked' /\ conversation_memory' = conversation_memory)
    ]_vars

C9_Witness ==
  /\ SummarizeOnly(user_input)
  /\ CallsAre(<<"gemini">>)
  /\ calls[1].req # user_input
  /\ calls[1].gem.kind = "ok"
  /\ Replied(calls[1].gem.text)
  /\ Len(conversation_memory) = 2

(* C10: for an input containing "summarize" (and neither "search" nor      *)
(* "find") when nothing, or an empty sequence, is stored for the user, the *)
(* raw input is sent to the Conversation Client and, on success,           *)
(* last_user_input and last_gemini_response are updated and a user turn    *)
(* and an assistant turn are appended to conversation_memory.              *)
C10_SummarizeFallsThrough ==
  [][ (SummarizeOnly(user_input') /\ NothingStored(tavily_response_memory)) =>
        /\ invoked'
        /\ Len(calls') = 1
        /\ calls'[1].api = "gemini"
        /\ calls'[1].req = user_input'
        /\ (calls'[1].gem.kind = "ok" =>
              /\ result' = [kind |-> "return", val |-> calls'[1].gem.text]
              /\ get_user_memory(user_memory', DEFAULT_USER_ID, "last_user_input")
                   = PyStr(user_input')
              /\ get_user_memory(user_memory', DEFAULT_USER_ID, "last_gemini_response")
                   = PyStr(calls'[1].gem.text)
              /\ conversation_memory' =
                   conversation_memory
                     \o <<UserTurn(user_input'), AssistantTurn(calls'[1].gem.text)>>)
    ]_vars

C10_Witness ==
  /\ SummarizeOnly(user_input)
  /\ Stored(tavily_response_memory).t = "list"
  /\ Stored(tavily_response_memory).l = <<>>
  /\ CallsAre(<<"gemini">>)
  /\ calls[1].gem.kind = "ok"
  /\ Len(conversation_memory) = 2
  /\ conversation_memory[1] = UserTurn(user_input)
  /\ conversation_memory[2] = AssistantTurn(result.val)

====
